---- MODULE Spec2Model ----
(***************************************************************************)
(* State-machine model of the tissue-fragment stitching UI:                *)
(*   src/src/ui/canvas_widget.py  (FragmentRenderer, CanvasWidget)         *)
(*   src/src/main_window.py       (MainWindow)                             *)
(* The Fragment entity, the FragmentManager, the ImageLoader and the       *)
(* RigidStitchingAlgorithm are collaborators whose code is not part of the *)
(* two files; they are modelled from the specification's contracts and are *)
(* marked as such where they are defined.                                  *)
(*                                                                         *)
(* Numbers: zoom is a float in the code; here it is an integer number of   *)
(* thousandths (One = 1.0).  Pan is kept in thousandths of a world unit.   *)
(* Fragment coordinates and image sizes are integers.                      *)
(***************************************************************************)
EXTENDS Integers, Sequences, FiniteSets, TLC

\* ---------------------------------------------------------------- bounds
MaxFrags == 2
MaxPaths == 2
MaxWheel == 1
MaxInflight == 1
MaxIter == 1

\* ------------------------------------------------------ program constants
One == 1000
MinZoom == 10
MaxZoom == 50000
WidgetW == 400
WidgetH == 300

FragIds == 1..MaxFrags
NoId == 0
NoSig == <<-1, FALSE>>
NoPixmap == [sig |-> NoSig, scale |-> 0, w |-> 0, h |-> 0, by |-> "none"]
NoZoom == -1

\* ------------------------------------------------------------- variables
VARIABLES
    frags,        \* id -> Fragment object (live, shared by manager and canvas)
    order,        \* FragmentManager: ids in insertion order
    nextId,       \* FragmentManager: next id to assign
    cfragments,   \* CanvasWidget.fragments: the list handed over last
    pixmaps,      \* CanvasWidget.fragment_pixmaps
    zoomCache,    \* CanvasWidget.fragment_zoom_cache
    dirty,        \* CanvasWidget.dirty_fragments
    renderTimer,  \* CanvasWidget.render_timer.isActive()
    zoom,         \* CanvasWidget.zoom (thousandths)
    panX,         \* CanvasWidget.pan_x (thousandths of a world unit)
    panY,         \* CanvasWidget.pan_y
    wheels,       \* number of wheel events so far (bounded by MaxWheel)
    inflight,     \* rendering_finished emissions not yet delivered
    stitchPc,     \* position inside MainWindow.perform_stitching
    initialT,     \* perform_stitching: initial_transforms
    refinedT,     \* perform_stitching: refined_transforms
    towrite,      \* perform_stitching: ids still to be written back
    iter,         \* stitch_fragments: iterations done
    emitted,      \* fragments_changed emissions during the last
                  \* MainWindow / FragmentManager operation
    message,      \* the text MainWindow showed last (dialog or status bar)
    lastLoad,     \* the paths of the last load_images_from_paths call and
                  \* the manager's collection when it was called
    selected,     \* FragmentManager: the selected fragment id (NoId: none)
    cselected,    \* CanvasWidget.selected_fragment_id (NoId: None)
    isPanning,    \* CanvasWidget.is_panning
    isDragging,   \* CanvasWidget.is_dragging_fragment
    draggedId,    \* CanvasWidget.dragged_fragment_id (NoId: None)
    dragOffset,   \* CanvasWidget.drag_offset
    lastMousePos, \* CanvasWidget.last_mouse_pos
    fastTimer,    \* CanvasWidget.fast_update_timer.isActive()
    pressHit      \* the fragment the last left press hit, NoId after a
                  \* release (history of the mouse events)

vars == <<frags, order, nextId, cfragments, pixmaps, zoomCache, dirty,
          renderTimer, zoom, panX, panY, wheels, inflight, stitchPc,
          initialT, refinedT, towrite, iter, emitted, message, lastLoad,
          selected, cselected, isPanning, isDragging, draggedId, dragOffset,
          lastMousePos, fastTimer, pressHit>>

canvasVars == <<cfragments, pixmaps, zoomCache, dirty, renderTimer>>
viewVars == <<zoom, panX, panY, wheels>>
stitchVars == <<stitchPc, initialT, refinedT, towrite, iter>>
managerVars == <<order, nextId>>
selVars == <<selected, cselected>>
mouseVars == <<isPanning, isDragging, draggedId, dragOffset, lastMousePos,
               fastTimer, pressHit>>

\* --------------------------------------------------------------- helpers
Range(s) == {s[i] : i \in 1..Len(s)}
Min2(a, b) == IF a <= b THEN a ELSE b
Max2(a, b) == IF a >= b THEN a ELSE b
Abs(a) == IF a >= 0 THEN a ELSE -a
\* Python int(): truncation toward zero of a / b, b > 0
TruncDiv(a, b) == IF a >= 0 THEN a \div b ELSE -((-a) \div b)
RECURSIVE SetMin(_)
SetMin(S) == LET x == CHOOSE x \in S : TRUE
             IN IF S = {x} THEN x ELSE Min2(x, SetMin(S \ {x}))
RECURSIVE SetMax(_)
SetMax(S) == LET x == CHOOSE x \in S : TRUE
             IN IF S = {x} THEN x ELSE Max2(x, SetMax(S \ {x}))

\* ------------------------------------------------- Fragment (from the spec)
\* A fragment as add_fragment_from_image creates it: identity transform,
\* visible, derived data not computed yet.
NewFragment(w, h, conv) ==
    [rot |-> 0, x |-> 0, y |-> 0, flip |-> FALSE, visible |-> TRUE,
     valid |-> FALSE, cached |-> NoSig, w |-> w, h |-> h, conv |-> conv,
     opacity |-> 100, flipv |-> FALSE]

BlankFragment == NewFragment(0, 0, FALSE)

\* Rotation normalised to [0, 360)
NormRot(a) == a % 360

\* Every mutator invalidates the derived-data cache.
Invalidate(f) == [f EXCEPT !.valid = FALSE]

\* get_transformed_image(): lazy recompute on the first read after an
\* invalidation; the result is keyed by (rotation, flip).
GetTransformedImage(f) ==
    IF f.valid THEN f
    ELSE [f EXCEPT !.valid = TRUE, !.cached = <<f.rot, f.flip>>]

\* Dimensions (width, height) of the transformed image; rotations are
\* multiples of 90 degrees in this model.
TransformedSize(f) ==
    IF f.rot \in {90, 270} THEN <<f.h, f.w>> ELSE <<f.w, f.h>>

\* get_bounding_box(): (x, y, width, height) in world coordinates
BoundingBox(f) == <<f.x, f.y, TransformedSize(f)[1], TransformedSize(f)[2]>>

Transform(f) == [rotation |-> f.rot, translation |-> <<f.x, f.y>>,
                 flip_horizontal |-> f.flip]

SetRotation(f, a) == Invalidate([f EXCEPT !.rot = NormRot(a)])
RotateBy(f, d) == SetRotation(f, f.rot + d)
SetPosition(f, x, y) == Invalidate([f EXCEPT !.x = x, !.y = y])
TranslateBy(f, dx, dy) == SetPosition(f, f.x + dx, f.y + dy)
SetFlip(f, b) == Invalidate([f EXCEPT !.flip = b])
SetVisible(f, b) == Invalidate([f EXCEPT !.visible = b])
\* flip_fragment(id, horizontal = False): the flip along the other axis
ToggleFlipVertical(f) == Invalidate([f EXCEPT !.flipv = ~f.flipv])
\* contains_point(x, y): the world point lies on the transformed image
\* (rotations are multiples of 90 degrees in this model)
ContainsPoint(f, x, y) ==
    /\ f.w > 0 /\ f.h > 0
    /\ f.x <= x /\ x < f.x + TransformedSize(f)[1]
    /\ f.y <= y /\ y < f.y + TransformedSize(f)[2]
SetTransform(f, t) ==
    Invalidate([f EXCEPT !.rot = NormRot(t.rotation),
                         !.x = t.translation[1], !.y = t.translation[2],
                         !.flip = t.flip_horizontal])
ResetTransform(f) ==
    Invalidate([f EXCEPT !.rot = 0, !.x = 0, !.y = 0, !.flip = FALSE])

\* ----------------------------------------------------- CanvasWidget, pure
\* get_zoom_level: quantized zoom level used as the cache key
GetZoomLevel(z) ==
    IF z < 100 THEN 100
    ELSE IF z < 250 THEN 250
    ELSE IF z < 500 THEN 500
    ELSE IF z < 1000 THEN 1000
    ELSE IF z < 2000 THEN 2000
    ELSE Min2(z, 10000)

\* Mutant of LodScale: a scale threshold inside a quantization bucket
LodScaleOffBucket(z) ==
    IF z >= 500 THEN 100
    ELSE IF z < 100 THEN 25
    ELSE IF z < 200 THEN 50
    ELSE 75

\* apply_lod: scale factor in percent (use_lod = True, lod_threshold = 0.5)
LodScale(z) ==
    IF z >= 500 THEN 100
    ELSE IF z < 100 THEN 25
    ELSE IF z < 250 THEN 50
    ELSE 75

\* apply_lod: the image size after LOD scaling, max(1, int(dim * scale))
ApplyLod(size, z) ==
    IF LodScale(z) = 100 THEN size
    ELSE <<Max2(1, (size[1] * LodScale(z)) \div 100),
           Max2(1, (size[2] * LodScale(z)) \div 100)>>

\* np.clip(zoom * factor, min_zoom, max_zoom)
Clip(z) == Max2(MinZoom, Min2(MaxZoom, z))

\* screen_to_world, one coordinate: int(s / zoom - pan)
ScreenToWorld(s, z, pan) == TruncDiv(s * One * One - pan * z, z * One)

\* Mutant of ScheduleRender: the timer is never started
ScheduleRenderStalls(timer) == timer

\* schedule_render(fast = False): the timer is started unless it is active;
\* the result is render_timer.isActive() afterwards
ScheduleRender(timer) == IF ~timer THEN TRUE ELSE timer

\* The canvas's rendering state as one value
Canvas(fl, pm, zc, d, t) ==
    [fragments |-> fl, pixmaps |-> pm, zoomc |-> zc, dirty |-> d, timer |-> t]

CurCanvas == Canvas(cfragments, pixmaps, zoomCache, dirty, renderTimer)

\* Mutant of IsNewOrChanged: the validity flag is not consulted
IsNewOrChangedNoValidity(F, oldIds, d, id) ==
    id \notin oldIds \/ id \in d

\* update_fragments, lines 157-159: new, or derived data invalid, or dirty
IsNewOrChanged(F, oldIds, d, id) ==
    id \notin oldIds \/ ~F[id].valid \/ id \in d

\* update_fragments, lines 166-168: the old fragment is looked up in
\* self.fragments, which holds the same live Fragment objects the manager
\* hands over again, so both sides of the comparison read one object.
VisibilityChanged(F, oldIds, id) ==
    /\ id \in oldIds
    /\ LET old_fragment == F[id]
           fragment == F[id]
       IN \/ old_fragment.visible # fragment.visible
          \/ Abs(old_fragment.opacity - fragment.opacity) > 1

\* Mutant of UpdateFragments: the pixmap of a changed fragment is dropped
\* only when the fragment was dirty before the call
UpdateFragmentsLazyDrop(c, F, list) ==
    LET oldIds == Range(c.fragments)
        newIds == Range(list)
        changed == {id \in newIds : IsNewOrChanged(F, oldIds, c.dirty, id)}
        drop == (oldIds \ newIds) \cup (changed \cap c.dirty)
    IN Canvas(list,
              [i \in FragIds |-> IF i \in drop THEN NoPixmap ELSE c.pixmaps[i]],
              [i \in FragIds |-> IF i \in drop THEN NoZoom ELSE c.zoomc[i]],
              c.dirty \cup changed,
              ScheduleRender(c.timer))

\* update_fragments(fragments)
UpdateFragments(c, F, list) ==
    LET oldIds == Range(c.fragments)
        newIds == Range(list)
        changed == {id \in newIds : IsNewOrChanged(F, oldIds, c.dirty, id)}
        vis == {id \in newIds : VisibilityChanged(F, oldIds, id)}
        drop == (oldIds \ newIds) \cup changed
                   \cup {id \in vis : ~F[id].visible}
    IN Canvas(list,
              [i \in FragIds |-> IF i \in drop THEN NoPixmap ELSE c.pixmaps[i]],
              [i \in FragIds |-> IF i \in drop THEN NoZoom ELSE c.zoomc[i]],
              c.dirty \cup changed \cup vis,
              ScheduleRender(c.timer))

\* fragments_changed is connected to update_ui and then to
\* on_fragments_changed; each hands the manager's list to update_fragments.
Notify(c, F, list) == UpdateFragments(UpdateFragments(c, F, list), F, list)

\* render_fragment_pixmap: whether the cached pixmap is reused
UseCached(c, z, id) ==
    /\ c.pixmaps[id] # NoPixmap
    /\ Abs(GetZoomLevel(z) - c.zoomc[id]) < 100

\* render_fragment_pixmap: the pixmap produced from the transformed image
\* (numpy_to_pixmap of apply_lod of the transformed image)
CanvasPixmap(f, z) ==
    [sig |-> f.cached, scale |-> LodScale(z),
     w |-> ApplyLod(TransformedSize(f), z)[1],
     h |-> ApplyLod(TransformedSize(f), z)[2], by |-> "canvas"]

\* render_dirty_fragments, line 203: the fragments the pass renders
ToRender(c, F) == {id \in c.dirty : id \in Range(c.fragments) /\ F[id].visible}

\* render_dirty_fragments: the ids left in the dirty set after the pass
AfterPass(d) == {}

\* render_dirty_fragments: the canvas after the pass
RenderDirtyFragments(c, F, z) ==
    IF c.dirty = {} THEN c
    ELSE
      LET R == {id \in ToRender(c, F) : ~UseCached(c, z, id) /\ F[id].conv}
      IN Canvas(c.fragments,
                [i \in FragIds |-> IF i \in R
                                   THEN CanvasPixmap(GetTransformedImage(F[i]), z)
                                   ELSE c.pixmaps[i]],
                [i \in FragIds |-> IF i \in R THEN GetZoomLevel(z)
                                   ELSE c.zoomc[i]],
                AfterPass(c.dirty),
                c.timer)

\* render_dirty_fragments: the fragments after the pass (the transformed
\* image of every rendered fragment has been read)
FragsAfterRender(c, F) ==
    IF c.dirty = {} THEN F
    ELSE [i \in FragIds |-> IF i \in ToRender(c, F)
                            THEN GetTransformedImage(F[i]) ELSE F[i]]

\* QRect as <<x1, y1, x2, y2>>
QRectXYWH(x, y, w, h) == <<x, y, x + w - 1, y + h - 1>>
QRectIsNull(r) == r[3] = r[1] - 1 /\ r[4] = r[2] - 1
QRectIntersects(a, b) ==
    IF QRectIsNull(a) \/ QRectIsNull(b) THEN FALSE
    ELSE
      LET l1 == IF a[3] < a[1] - 1 THEN a[3] + 1 ELSE a[1]
          r1 == IF a[3] < a[1] - 1 THEN a[1] - 1 ELSE a[3]
          l2 == IF b[3] < b[1] - 1 THEN b[3] + 1 ELSE b[1]
          r2 == IF b[3] < b[1] - 1 THEN b[1] - 1 ELSE b[3]
          t1 == IF a[4] < a[2] - 1 THEN a[4] + 1 ELSE a[2]
          b1 == IF a[4] < a[2] - 1 THEN a[2] - 1 ELSE a[4]
          t2 == IF b[4] < b[2] - 1 THEN b[4] + 1 ELSE b[2]
          b2 == IF b[4] < b[2] - 1 THEN b[2] - 1 ELSE b[4]
      IN ~(l1 > r2 \/ l2 > r1) /\ ~(t1 > b2 \/ t2 > b1)

\* get_visible_world_rect
VisibleWorldRect(z, px, py) ==
    <<ScreenToWorld(0, z, px), ScreenToWorld(0, z, py),
      ScreenToWorld(WidgetW - 1, z, px), ScreenToWorld(WidgetH - 1, z, py)>>

\* fragment_intersects_rect
FragmentIntersectsRect(f, rect) ==
    LET bbox == BoundingBox(f)
    IN QRectIntersects(QRectXYWH(bbox[1], bbox[2], bbox[3], bbox[4]), rect)

\* paintEvent: the fragments handed to draw_fragment
Drawn(c, F, z, px, py) ==
    {id \in Range(c.fragments) :
        /\ F[id].visible
        /\ FragmentIntersectsRect(F[id], VisibleWorldRect(z, px, py))}

\* Mutant of DrawOrder: hidden fragments are not skipped
DrawOrderNoSkip(c, F, z, px, py) ==
    SelectSeq(c.fragments,
              LAMBDA id : FragmentIntersectsRect(F[id],
                                                 VisibleWorldRect(z, px, py)))

\* paintEvent, lines 330-338: the loop over self.fragments from index i on;
\* the ids handed to draw_fragment, in the order of the calls
RECURSIVE PaintFrom(_, _, _, _)
PaintFrom(list, F, rect, i) ==
    IF i > Len(list) THEN <<>>
    ELSE IF ~F[list[i]].visible THEN PaintFrom(list, F, rect, i + 1)
    ELSE IF ~FragmentIntersectsRect(F[list[i]], rect)
         THEN PaintFrom(list, F, rect, i + 1)
    ELSE <<list[i]>> \o PaintFrom(list, F, rect, i + 1)

\* paintEvent: the sequence of draw_fragment calls of one paint
DrawOrder(c, F, z, px, py) ==
    PaintFrom(c.fragments, F, VisibleWorldRect(z, px, py), 1)

\* draw_selection_outlines, lines 387-394: the fragments outlined; the
\* fragment whose selected flag is set is the manager's selected fragment
Outlined(c, F, msel, csel) ==
    {id \in Range(c.fragments) :
        F[id].visible /\ (id = msel \/ id = csel)}

\* draw_fragment, lines 363-368: no pixmap yet, so mark dirty and schedule
Placeholders(c, F, z, px, py) ==
    {id \in Drawn(c, F, z, px, py) : c.pixmaps[id] = NoPixmap}

\* draw_fragment, line 375: drawPixmap(int(x), int(y), pixmap) paints the
\* pixmap at its own size; the rectangle covered, in world coordinates
DrawnRect(f, pm) == <<f.x, f.y, pm.w, pm.h>>

\* paintEvent: the canvas after painting
PaintCanvas(c, F, z, px, py) ==
    LET P == Placeholders(c, F, z, px, py)
    IN Canvas(c.fragments, c.pixmaps, c.zoomc, c.dirty \cup P,
              IF P = {} THEN c.timer ELSE ScheduleRender(c.timer))

\* paintEvent: get_bounding_box is read for every visible fragment
FragsAfterPaint(c, F) ==
    [i \in FragIds |-> IF i \in Range(c.fragments) /\ F[i].visible
                       THEN GetTransformedImage(F[i]) ELSE F[i]]

\* ids of the visible fragments in the canvas's list
VisibleIds(c, F) == {id \in Range(c.fragments) : F[id].visible}

\* ------------------------------------------------------------------ Init
\* The state after construction (lines 88-142), with the zoom given
InitWithZoom(z) ==
    /\ frags = [i \in FragIds |-> BlankFragment]
    /\ order = <<>>
    /\ nextId = 1
    /\ cfragments = <<>>
    /\ pixmaps = [i \in FragIds |-> NoPixmap]
    /\ zoomCache = [i \in FragIds |-> NoZoom]
    /\ dirty = {}
    /\ renderTimer = FALSE
    /\ zoom = z
    /\ panX = 0
    /\ panY = 0
    /\ wheels = 0
    /\ inflight = {}
    /\ stitchPc = "idle"
    /\ initialT = <<>>
    /\ refinedT = <<>>
    /\ towrite = <<>>
    /\ iter = 0
    /\ emitted = 0
    /\ message = "ready"
    /\ lastLoad = [paths |-> <<>>, before |-> <<>>]
    /\ selected = NoId
    /\ cselected = NoId
    /\ isPanning = FALSE
    /\ isDragging = FALSE
    /\ draggedId = NoId
    /\ dragOffset = <<0, 0>>
    /\ lastMousePos = <<0, 0>>
    /\ fastTimer = FALSE
    /\ pressHit = NoId

Init == InitWithZoom(One)

SetCanvas(c) ==
    /\ cfragments' = c.fragments
    /\ pixmaps' = c.pixmaps
    /\ zoomCache' = c.zoomc
    /\ dirty' = c.dirty
    /\ renderTimer' = c.timer

\* Mutant of Idle: handlers run while perform_stitching is in progress
IdleAlways == TRUE

\* The owner thread is inside no handler (perform_stitching runs
\* synchronously in the owner thread, lines 288-330).
Idle == stitchPc = "idle"

Live(id) == id \in Range(order)

\* ------------------------------------------- image loading (main_window)
\* ImageLoader.load_image(path): an image buffer, None, or an exception
Image(w, h, conv) == [res |-> "ok", w |-> w, h |-> h, conv |-> conv]
LoadNone == [res |-> "none", w |-> 0, h |-> 0, conv |-> FALSE]
LoadRaise == [res |-> "raise", w |-> 0, h |-> 0, conv |-> FALSE]

\* FragmentManager.add_fragment_from_image followed by its notification,
\* on the state st = [F, order, nextId, c, emitted]
AddFragmentFromImage(st, img) ==
    LET F2 == [st.F EXCEPT ![st.nextId] = NewFragment(img.w, img.h, img.conv)]
        o2 == Append(st.order, st.nextId)
    IN [F |-> F2, order |-> o2, nextId |-> st.nextId + 1,
        c |-> Notify(st.c, F2, o2), emitted |-> st.emitted + 1]

\* load_images_from_paths, lines 214-231: the loop over the paths inside
\* one try block; an exception leaves the loop
RECURSIVE LoadLoop(_, _, _)
LoadLoop(st, paths, i) ==
    IF i > Len(paths) THEN st
    ELSE IF paths[i].res = "raise" THEN st
    ELSE IF paths[i].res = "none" THEN LoadLoop(st, paths, i + 1)
    ELSE LoadLoop(AddFragmentFromImage(st, paths[i]), paths, i + 1)

OkCount(paths) == Cardinality({i \in 1..Len(paths) : paths[i].res = "ok"})

LoadImagesFromPaths(paths) ==
    /\ Idle
    /\ nextId + OkCount(paths) - 1 <= MaxFrags
    /\ LET st == LoadLoop([F |-> frags, order |-> order, nextId |-> nextId,
                           c |-> CurCanvas, emitted |-> 0], paths, 1)
       IN /\ frags' = st.F
          /\ order' = st.order
          /\ nextId' = st.nextId
          /\ SetCanvas(st.c)
          /\ emitted' = st.emitted
          /\ message' = IF \E i \in 1..Len(paths) : paths[i].res = "raise"
                        THEN "Failed to load images" ELSE "Loaded"
          /\ lastLoad' = [paths |-> paths, before |-> order]
    /\ UNCHANGED <<viewVars, inflight, stitchVars>>
    /\ UNCHANGED <<selVars, mouseVars>>

LoadImages(Outcomes, maxn) ==
    \E n \in 1..maxn : \E paths \in [1..n -> Outcomes] :
        LoadImagesFromPaths(paths)

\* ------------------------------------- fragment mutation (main_window)
\* A FragmentManager mutator on a live fragment: the fragment is changed
\* and fragments_changed is emitted once.
ManagerMutate(id, f) ==
    /\ frags' = [frags EXCEPT ![id] = f]
    /\ SetCanvas(Notify(CurCanvas, [frags EXCEPT ![id] = f], order))
    /\ emitted' = 1
    /\ UNCHANGED <<managerVars, viewVars, inflight, stitchVars, message,
                   lastLoad>>
    /\ UNCHANGED <<selVars, mouseVars>>

\* A handler that returns without doing anything
NoEffect ==
    /\ emitted' = 0
    /\ UNCHANGED <<frags, managerVars, canvasVars, viewVars, inflight,
                   stitchVars, message, lastLoad>>
    /\ UNCHANGED <<selVars, mouseVars>>

\* apply_transform with the rotation and flip branches done by Rot and Flip
TransformWith(f, type, value, Rot(_, _), Flip(_)) ==
    CASE type = "rotate_cw" -> Rot(f, f.rot + 90)
      [] type = "rotate_ccw" -> Rot(f, f.rot - 90)
      [] type = "rotate_angle" -> Rot(f, f.rot + value)
      [] type = "set_rotation" -> Rot(f, value)
      [] type = "flip_horizontal" -> Flip(f)
      [] type = "translate" -> TranslateBy(f, value[1], value[2])
      [] type = "flip_vertical" -> ToggleFlipVertical(f)
      [] type = "opacity_changed" -> [f EXCEPT !.opacity = value]
      [] type = "visibility_changed" -> [f EXCEPT !.visible = value]

\* Mutant of ApplyTransformResult: rotation and flip are written to the
\* fragment's attributes directly, as opacity and visibility are
ApplyTransformResultDirect(f, type, value) ==
    TransformWith(f, type, value,
                  LAMBDA g, a : [g EXCEPT !.rot = NormRot(a)],
                  LAMBDA g : [g EXCEPT !.flip = ~g.flip])

\* Mutant of ApplyTransformResult: the angle reaches the fragment as it is
ApplyTransformResultRaw(f, type, value) ==
    TransformWith(f, type, value,
                  LAMBDA g, a : Invalidate([g EXCEPT !.rot = a]),
                  LAMBDA g : SetFlip(g, ~g.flip))

\* Mutant of ApplyTransformResult: the flip request sets the flag
ApplyTransformResultSetsFlip(f, type, value) ==
    TransformWith(f, type, value,
                  LAMBDA g, a : SetRotation(g, a),
                  LAMBDA g : SetFlip(g, TRUE))

\* apply_transform(fragment_id, transform_type, value), lines 252-278
ApplyTransformResult(f, type, value) ==
    CASE type = "rotate_cw" -> RotateBy(f, 90)
      [] type = "rotate_ccw" -> RotateBy(f, -90)
      [] type = "rotate_angle" -> RotateBy(f, value)
      [] type = "set_rotation" -> SetRotation(f, value)
      [] type = "flip_horizontal" -> SetFlip(f, ~f.flip)
      [] type = "translate" -> TranslateBy(f, value[1], value[2])
      [] type = "flip_vertical" -> ToggleFlipVertical(f)
      [] type = "opacity_changed" -> [f EXCEPT !.opacity = value]
      [] type = "visibility_changed" -> [f EXCEPT !.visible = value]

\* Mutant of ApplyTransformEmits: the direct branches also go through a
\* manager mutator
ApplyTransformEmitsTwice(type) ==
    IF type \in {"opacity_changed", "visibility_changed"} THEN 2 ELSE 1

\* apply_transform: the fragments_changed emissions of each branch (one by
\* the manager's mutator, or one emitted directly at line 275 or 278)
ApplyTransformEmits(type) ==
    CASE type \in {"rotate_cw", "rotate_ccw", "rotate_angle", "set_rotation",
                   "flip_horizontal", "flip_vertical", "translate"} -> 1
      [] type \in {"opacity_changed", "visibility_changed"} -> 1

\* n deliveries of fragments_changed
RECURSIVE NotifyTimes(_, _, _, _)
NotifyTimes(c, F, list, n) ==
    IF n = 0 THEN c ELSE NotifyTimes(Notify(c, F, list), F, list, n - 1)

ApplyTransform(id, type, value) ==
    /\ Idle
    /\ IF ~Live(id) THEN NoEffect
       ELSE LET F2 == [frags EXCEPT
                        ![id] = ApplyTransformResult(frags[id], type, value)]
                n == ApplyTransformEmits(type)
            IN /\ frags' = F2
               /\ SetCanvas(NotifyTimes(CurCanvas, F2, order, n))
               /\ emitted' = n
               /\ UNCHANGED <<managerVars, viewVars, inflight, stitchVars,
                              message, lastLoad, selVars, mouseVars>>

\* reset_fragment_transform(fragment_id), lines 280-282
ResetFragmentTransform(id) ==
    /\ Idle
    /\ IF ~Live(id) THEN NoEffect
       ELSE ManagerMutate(id, ResetTransform(frags[id]))

\* update_fragment_position(fragment_id, x, y), lines 284-286
UpdateFragmentPosition(id, x, y) ==
    /\ Idle
    /\ IF ~Live(id) THEN NoEffect
       ELSE ManagerMutate(id, SetPosition(frags[id], x, y))

\* toggle_fragment_visibility(fragment_id, visible), lines 244-250
ToggleFragmentVisibility(id, b) ==
    /\ Idle
    /\ IF ~Live(id) THEN NoEffect
       ELSE ManagerMutate(id, SetVisible(frags[id], b))

\* reset_fragments(), lines 332-341: after the confirmation dialog,
\* reset_all_transforms resets every fragment and notifies once
ResetFragments(reply) ==
    /\ Idle
    /\ message' = "Confirm Reset"
    /\ IF reply = "Yes"
       THEN LET F2 == [i \in FragIds |-> IF Live(i) THEN ResetTransform(frags[i])
                                          ELSE frags[i]]
            IN /\ frags' = F2
               /\ SetCanvas(Notify(CurCanvas, F2, order))
               /\ emitted' = 1
       ELSE /\ emitted' = 0
            /\ UNCHANGED <<frags, canvasVars>>
    /\ UNCHANGED <<managerVars, viewVars, inflight, stitchVars, lastLoad,
                   selVars, mouseVars>>

\* select_fragment(fragment_id), lines 235-242: the manager rejects an
\* unknown id; set_selected_fragment of the canvas (lines 178-182) stores
\* whatever id it is given
SelectFragment(id) ==
    /\ Idle
    /\ selected' = IF Live(id) THEN id ELSE selected
    /\ cselected' = id
    /\ emitted' = 0
    /\ UNCHANGED <<frags, managerVars, canvasVars, viewVars, inflight,
                   stitchVars, message, lastLoad, mouseVars>>

\* FragmentManager.remove_fragment(id) and its notification; the manager
\* keeps its selected id referring to a live fragment
RemoveSeq(s, id) == SelectSeq(s, LAMBDA e : e # id)
RemoveFragment(id) ==
    /\ Idle
    /\ Live(id)
    /\ order' = RemoveSeq(order, id)
    /\ SetCanvas(Notify(CurCanvas, frags, RemoveSeq(order, id)))
    /\ emitted' = 1
    /\ UNCHANGED <<frags, nextId, viewVars, inflight, stitchVars, message,
                   lastLoad>>
    /\ selected' = IF selected = id THEN NoId ELSE selected
    /\ UNCHANGED <<cselected, mouseVars>>

\* --------------------------------------------- canvas events (canvas_widget)
\* Mutant of GetFragmentAtPosition: the list is searched bottom to top
GetFragmentAtPositionBottomUp(list, F, x, y) ==
    LET S == {i \in 1..Len(list) :
                F[list[i]].visible /\ ContainsPoint(F[list[i]], x, y)}
    IN IF S = {} THEN NoId ELSE list[SetMin(S)]

\* get_fragment_at_position, lines 497-500: reversed(self.fragments),
\* from index i down
RECURSIVE HitFrom(_, _, _, _, _)
HitFrom(list, F, x, y, i) ==
    IF i = 0 THEN NoId
    ELSE IF F[list[i]].visible /\ ContainsPoint(F[list[i]], x, y)
         THEN list[i]
         ELSE HitFrom(list, F, x, y, i - 1)

\* get_fragment_at_position(x, y): the fragment's id, NoId for None
GetFragmentAtPosition(list, F, x, y) == HitFrom(list, F, x, y, Len(list))

\* mousePressEvent, lines 396-419; fragment_selected is connected to
\* select_fragment (main_window.py line 104)
MousePressEvent(button, sx, sy) ==
    /\ Idle
    /\ LET wx == ScreenToWorld(sx, zoom, panX)
           wy == ScreenToWorld(sy, zoom, panY)
           clicked == GetFragmentAtPosition(cfragments, frags, wx, wy)
       IN IF button = "left" /\ clicked # NoId
          THEN /\ selected' = IF Live(clicked) THEN clicked ELSE selected
               /\ cselected' = clicked
               /\ isDragging' = TRUE
               /\ draggedId' = clicked
               /\ dragOffset' = <<wx - frags[clicked].x, wy - frags[clicked].y>>
               /\ emitted' = 0
               /\ pressHit' = clicked
               /\ UNCHANGED isPanning
          ELSE /\ isPanning' = (isPanning \/ button \in {"left", "middle"})
               /\ UNCHANGED <<selVars, isDragging, draggedId, dragOffset,
                              emitted, pressHit>>
    /\ lastMousePos' = <<sx, sy>>
    /\ UNCHANGED <<frags, managerVars, canvasVars, viewVars, inflight,
                   stitchVars, message, lastLoad, fastTimer>>

\* mouseReleaseEvent, lines 442-446
MouseReleaseEvent ==
    /\ Idle
    /\ isPanning' = FALSE
    /\ isDragging' = FALSE
    /\ draggedId' = NoId
    /\ pressHit' = NoId
    /\ UNCHANGED <<frags, managerVars, canvasVars, viewVars, inflight,
                   stitchVars, emitted, message, lastLoad, selVars,
                   dragOffset, lastMousePos, fastTimer>>

\* schedule_render(fast = True), lines 186-193: the timers afterwards; during
\* an interaction only the fast update timer is started
ScheduleRenderFast(t, interacting) ==
    IF interacting
    THEN [render |-> t.render, fast |-> IF ~t.fast THEN TRUE ELSE t.fast]
    ELSE [render |-> ScheduleRender(t.render), fast |-> t.fast]

\* mouseMoveEvent, line 429: the id fragment_moved is emitted with for a
\* move in the current state, NoId when the move emits nothing
FragmentMovedId ==
    IF isDragging /\ draggedId # NoId THEN draggedId ELSE NoId

\* mouseMoveEvent, lines 435-436: pan += delta / zoom (one coordinate)
PanBy(pan, delta, z) == pan + TruncDiv(delta * One * One, z)

\* mouseMoveEvent, lines 421-440; fragment_moved is connected to
\* update_fragment_position (main_window.py line 105), whose notification
\* reaches update_fragments before schedule_render(fast=True) is called
MouseMoveEvent(sx, sy) ==
    /\ Idle
    /\ IF isDragging /\ draggedId # NoId
       THEN LET id == FragmentMovedId
                new_x == ScreenToWorld(sx, zoom, panX) - dragOffset[1]
                new_y == ScreenToWorld(sy, zoom, panY) - dragOffset[2]
                F2 == [frags EXCEPT ![id] = SetPosition(frags[id], new_x, new_y)]
                c2 == IF Live(id) THEN Notify(CurCanvas, F2, order)
                      ELSE CurCanvas
                t2 == ScheduleRenderFast([render |-> c2.timer,
                                          fast |-> fastTimer],
                                         isDragging \/ isPanning)
            IN /\ frags' = IF Live(id) THEN F2 ELSE frags
               /\ emitted' = IF Live(id) THEN 1 ELSE 0
               /\ SetCanvas(Canvas(c2.fragments, c2.pixmaps, c2.zoomc,
                                   c2.dirty, t2.render))
               /\ fastTimer' = t2.fast
               /\ UNCHANGED <<panX, panY>>
       ELSE IF isPanning
       THEN /\ panX' = PanBy(panX, sx - lastMousePos[1], zoom)
            /\ panY' = PanBy(panY, sy - lastMousePos[2], zoom)
            /\ UNCHANGED <<frags, emitted, canvasVars, fastTimer>>
       ELSE UNCHANGED <<frags, emitted, canvasVars, fastTimer, panX, panY>>
    /\ lastMousePos' = <<sx, sy>>
    /\ UNCHANGED <<managerVars, zoom, wheels, inflight, stitchVars, message,
                   lastLoad, selVars, isPanning, isDragging, draggedId,
                   dragOffset, pressHit>>

\* fast_update_timer.timeout -> update() (lines 123-125): the single-shot
\* timer is inactive afterwards and a repaint is requested
FastTimerExpiry ==
    /\ Idle
    /\ fastTimer
    /\ fastTimer' = FALSE
    /\ UNCHANGED <<frags, managerVars, canvasVars, viewVars, inflight,
                   stitchVars, emitted, message, lastLoad, selVars,
                   isPanning, isDragging, draggedId, dragOffset,
                   lastMousePos, pressHit>>

\* render_timer.timeout -> render_dirty_fragments (the single-shot timer is
\* inactive when the slot runs)
TimerExpiry ==
    /\ Idle
    /\ renderTimer
    /\ LET c0 == Canvas(cfragments, pixmaps, zoomCache, dirty, FALSE)
       IN /\ SetCanvas(RenderDirtyFragments(c0, frags, zoom))
          /\ frags' = FragsAfterRender(c0, frags)
    /\ UNCHANGED <<emitted, message, lastLoad, managerVars, viewVars, inflight, stitchVars>>
    /\ UNCHANGED <<selVars, mouseVars>>

\* paintEvent
PaintEvent ==
    /\ Idle
    /\ IF cfragments = <<>>
       THEN UNCHANGED <<frags, canvasVars>>
       ELSE /\ SetCanvas(PaintCanvas(CurCanvas, frags, zoom, panX, panY))
            /\ frags' = FragsAfterPaint(CurCanvas, frags)
    /\ UNCHANGED <<emitted, message, lastLoad, managerVars, viewVars, inflight, stitchVars>>
    /\ UNCHANGED <<selVars, mouseVars>>

\* wheelEvent, line 455: the new zoom
WheelZoom(z, up) == Clip(IF up THEN (z * 12) \div 10 ELSE (z * 10) \div 12)

\* wheelEvent, line 469: the quantized level changed significantly
LevelChanged(z1, z2) == Abs(GetZoomLevel(z1) - GetZoomLevel(z2)) > 100

\* wheelEvent, lines 464-466: the pan after the zoom change (one coordinate)
WheelPan(s, z1, z2, pan) ==
    pan + (ScreenToWorld(s, z1, pan) - ScreenToWorld(s, z2, pan)) * One

\* Mutant of MarkVisibleDirty: the render is not scheduled
MarkVisibleDirtyNoSchedule(c, F) ==
    Canvas(c.fragments, c.pixmaps, c.zoomc, c.dirty \cup VisibleIds(c, F),
           c.timer)

\* Marking every visible fragment dirty and scheduling a render
\* (wheelEvent 470-471, zoom_to_fit 541-544, zoom_to_100 553-556)
MarkVisibleDirty(c, F) ==
    Canvas(c.fragments, c.pixmaps, c.zoomc, c.dirty \cup VisibleIds(c, F),
           ScheduleRender(c.timer))

WheelEvent(up, sx, sy) ==
    /\ Idle
    /\ wheels < MaxWheel
    /\ wheels' = wheels + 1
    /\ LET nz == WheelZoom(zoom, up)
       IN IF nz # zoom
          THEN /\ zoom' = nz
               /\ panX' = WheelPan(sx, zoom, nz, panX)
               /\ panY' = WheelPan(sy, zoom, nz, panY)
               /\ IF LevelChanged(zoom, nz)
                  THEN SetCanvas(MarkVisibleDirty(CurCanvas, frags))
                  ELSE UNCHANGED canvasVars
          ELSE UNCHANGED <<zoom, panX, panY, canvasVars>>
    /\ UNCHANGED <<emitted, message, lastLoad, frags, managerVars, inflight, stitchVars>>
    /\ UNCHANGED <<selVars, mouseVars>>

\* zoom_to_fit, line 504 (image_data is never None for a loaded fragment)
FitFragments(c, F) == VisibleIds(c, F)

\* zoom_to_fit, lines 509-520: <<min_x, min_y, max_x, max_y>>
ContentBounds(F, S) ==
    <<SetMin({BoundingBox(F[i])[1] : i \in S}),
      SetMin({BoundingBox(F[i])[2] : i \in S}),
      SetMax({BoundingBox(F[i])[1] + BoundingBox(F[i])[3] : i \in S}),
      SetMax({BoundingBox(F[i])[2] + BoundingBox(F[i])[4] : i \in S})>>

\* zoom_to_fit, lines 529-531: min(zoom_x, zoom_y) * 0.9
FitZoom(cw, ch) ==
    (Min2((WidgetW * One) \div cw, (WidgetH * One) \div ch) * 9) \div 10

\* zoom_to_fit, lines 534-538: (widget / 2 / zoom) - content centre
FitPan(widget, z, lo, hi) ==
    (widget * One * One) \div (2 * z) - ((lo + hi) * One) \div 2

ZoomToFit ==
    /\ Idle
    /\ LET S == FitFragments(CurCanvas, frags)
       IN IF S = {}
          THEN UNCHANGED <<frags, canvasVars, zoom, panX, panY>>
          ELSE
            LET b == ContentBounds(frags, S)
                cw == b[3] - b[1]
                ch == b[4] - b[2]
                F2 == [i \in FragIds |-> IF i \in S
                                          THEN GetTransformedImage(frags[i])
                                          ELSE frags[i]]
            IN /\ frags' = F2
               /\ IF cw <= 0 \/ ch <= 0
                  THEN UNCHANGED <<canvasVars, zoom, panX, panY>>
                  ELSE /\ zoom' = FitZoom(cw, ch)
                       /\ panX' = FitPan(WidgetW, FitZoom(cw, ch), b[1], b[3])
                       /\ panY' = FitPan(WidgetH, FitZoom(cw, ch), b[2], b[4])
                       /\ SetCanvas(MarkVisibleDirty(CurCanvas, F2))
    /\ UNCHANGED <<emitted, message, lastLoad, managerVars, wheels, inflight, stitchVars>>
    /\ UNCHANGED <<selVars, mouseVars>>

ZoomTo100 ==
    /\ Idle
    /\ zoom' = One
    /\ panX' = 0
    /\ panY' = 0
    /\ SetCanvas(MarkVisibleDirty(CurCanvas, frags))
    /\ UNCHANGED <<emitted, message, lastLoad, frags, managerVars, wheels, inflight, stitchVars>>
    /\ UNCHANGED <<selVars, mouseVars>>

\* invalidate_fragment(fragment_id)
InvalidateFragment(id) ==
    /\ Idle
    /\ dirty' = dirty \cup {id}
    /\ pixmaps' = [pixmaps EXCEPT ![id] = NoPixmap]
    /\ zoomCache' = [zoomCache EXCEPT ![id] = NoZoom]
    /\ renderTimer' = ScheduleRender(renderTimer)
    /\ UNCHANGED <<emitted, message, lastLoad, frags, managerVars, cfragments, viewVars, inflight,
                   stitchVars>>
    /\ UNCHANGED <<selVars, mouseVars>>

\* clear_cache()
ClearCache ==
    /\ Idle
    /\ pixmaps' = [i \in FragIds |-> NoPixmap]
    /\ zoomCache' = [i \in FragIds |-> NoZoom]
    /\ dirty' = dirty \cup VisibleIds(CurCanvas, frags)
    /\ renderTimer' = ScheduleRender(renderTimer)
    /\ UNCHANGED <<emitted, message, lastLoad, frags, managerVars, cfragments, viewVars, inflight,
                   stitchVars>>
    /\ UNCHANGED <<selVars, mouseVars>>

\* ------------------------------------------------------ FragmentRenderer
\* render_fragment, lines 35-46: LOD scale factor in percent
RendererScale(z) == IF z < 250 THEN 25 ELSE IF z < 500 THEN 50 ELSE 100

\* render_fragment, lines 30 and 74: the renderer is handed the live
\* Fragment and reads its transformed image through it
RendererRead(f) == GetTransformedImage(f)

\* render_fragment, lines 57-77: the pixmap emitted (scaled back up to the
\* transformed image's size when LOD was used)
RendererPixmap(f, z) ==
    [sig |-> f.cached, scale |-> RendererScale(z),
     w |-> TransformedSize(f)[1], h |-> TransformedSize(f)[2],
     by |-> "renderer"]

\* render_fragment(fragment, zoom): the result leaves as a
\* rendering_finished emission
RenderFragment(id, z) ==
    /\ Idle
    /\ Live(id)
    /\ Cardinality(inflight) < MaxInflight
    /\ frags' = [frags EXCEPT ![id] = RendererRead(frags[id])]
    /\ inflight' = inflight \cup
                     {[id |-> id, pixmap |-> RendererPixmap(RendererRead(frags[id]), z)]}
    /\ UNCHANGED <<emitted, message, lastLoad, managerVars, canvasVars, viewVars, stitchVars>>
    /\ UNCHANGED <<selVars, mouseVars>>

\* on_fragment_rendered(fragment_id, pixmap), lines 304-307
InstallRendered(pm, r) == [pm EXCEPT ![r.id] = r.pixmap]

OnFragmentRendered(r) ==
    /\ Idle
    /\ r \in inflight
    /\ inflight' = inflight \ {r}
    /\ pixmaps' = InstallRendered(pixmaps, r)
    /\ UNCHANGED <<emitted, message, lastLoad, frags, managerVars, cfragments, zoomCache, dirty,
                   renderTimer, viewVars, stitchVars>>
    /\ UNCHANGED <<selVars, mouseVars>>

\* -------------------------------------- rigid stitching (main_window)
\* Mutant of TooFewFragments: off by one
TooFewFragmentsOffByOne(n) == n < 1

\* perform_stitching, line 291: too few fragments to stitch
TooFewFragments(n) == n < 2

\* perform_stitching, lines 301-307: the initial guesses
InitialTransforms(F, list) == [id \in Range(list) |-> Transform(F[id])]

\* perform_stitching, lines 310-312: what the caller hands to
\* stitch_fragments
StitchCallArgs == {"fragments", "initial_transforms"}

\* Mutant of WriteArgs: the translation is passed as (y, x)
WriteArgsSwapped(t) ==
    [rotation |-> t.rotation,
     translation |-> <<t.translation[2], t.translation[1]>>,
     flip_horizontal |-> t.flip_horizontal]

\* perform_stitching, lines 318-323: the arguments of
\* set_fragment_transform for one refined transform
WriteArgs(t) ==
    [rotation |-> t.rotation, translation |-> t.translation,
     flip_horizontal |-> t.flip_horizontal]

\* RigidStitchingAlgorithm (from the spec, section 4.4).  The pairwise score
\* is taken over the region where the two bounding boxes overlap; a pair
\* without overlap contributes zero.
RECURSIVE SumOver(_, _)
SumOver(S, g) ==
    IF S = {} THEN 0
    ELSE LET x == CHOOSE x \in S : TRUE
         IN g[x] + SumOver(S \ {x}, g)

TransformSize(t, f) ==
    IF t.rotation \in {90, 270} THEN <<f.h, f.w>> ELSE <<f.w, f.h>>

OverlapLen(a, la, b, lb) == Max2(0, Min2(a + la, b + lb) - Max2(a, b))

PairScore(ta, fa, tb, fb) ==
    LET ow == OverlapLen(ta.translation[1], TransformSize(ta, fa)[1],
                         tb.translation[1], TransformSize(tb, fb)[1])
        oh == OverlapLen(ta.translation[2], TransformSize(ta, fa)[2],
                         tb.translation[2], TransformSize(tb, fb)[2])
    IN (ow * oh) * (IF ta.flip_horizontal = tb.flip_horizontal THEN 2 ELSE 1)

\* One fragment's score, summed over its overlapping neighbours
FragScore(cfg, F, i) ==
    SumOver(DOMAIN cfg \ {i},
            [j \in DOMAIN cfg \ {i} |-> PairScore(cfg[i], F[i], cfg[j], F[j])])

\* The global objective
Objective(cfg, F) ==
    SumOver(DOMAIN cfg, [i \in DOMAIN cfg |-> FragScore(cfg, F, i)])

\* The transforms the refinement tries for a fragment: translation and
\* flip are searched, the rotation is kept
Candidates(t) ==
    {[rotation |-> t.rotation, translation |-> q, flip_horizontal |-> b] :
        q \in {<<0, 0>>, <<500, 0>>}, b \in BOOLEAN}

\* One refinement iteration: a configuration with a strictly better
\* objective in which no fragment scores worse than its initial guess
Improvements(cfg, init, F) ==
    {c \in [DOMAIN cfg -> UNION {Candidates(init[i]) : i \in DOMAIN init}] :
        /\ \A i \in DOMAIN cfg : c[i] \in Candidates(init[i])
        /\ \A i \in DOMAIN cfg : FragScore(c, F, i) >= FragScore(init, F, i)
        /\ Objective(c, F) > Objective(cfg, F)}

\* perform_stitching, lines 288-312: up to the call of stitch_fragments
PerformStitching ==
    /\ Idle
    /\ emitted' = 0
    /\ IF TooFewFragments(Len(order))
       THEN /\ message' = "Need at least 2 fragments"
            /\ UNCHANGED stitchVars
       ELSE /\ message' = "Performing rigid stitching..."
            /\ stitchPc' = "refining"
            /\ initialT' = InitialTransforms(frags, order)
            /\ refinedT' = InitialTransforms(frags, order)
            /\ iter' = 0
            /\ UNCHANGED towrite
    /\ UNCHANGED <<frags, managerVars, canvasVars, viewVars, inflight,
                   lastLoad>>
    /\ UNCHANGED <<selVars, mouseVars>>

\* stitch_fragments: one iteration of the refinement loop
StitchIterate ==
    /\ stitchPc = "refining"
    /\ iter < MaxIter
    /\ iter' = iter + 1
    /\ refinedT' \in Improvements(refinedT, initialT, frags)
    /\ UNCHANGED <<frags, managerVars, canvasVars, viewVars, inflight,
                   stitchPc, initialT, towrite, emitted, message, lastLoad>>
    /\ UNCHANGED <<selVars, mouseVars>>

\* stitch_fragments returns (converged, or the iteration bound is reached);
\* refined_transforms.items() is iterated in the fragments' order
StitchReturn ==
    /\ stitchPc = "refining"
    /\ iter = MaxIter \/ Improvements(refinedT, initialT, frags) = {}
    /\ stitchPc' = "writing"
    /\ towrite' = order
    /\ UNCHANGED <<frags, managerVars, canvasVars, viewVars, inflight,
                   initialT, refinedT, iter, emitted, message, lastLoad>>
    /\ UNCHANGED <<selVars, mouseVars>>

\* perform_stitching, lines 315-323: one iteration of the write-back loop;
\* set_fragment_transform notifies the observers before it returns
WriteBack ==
    /\ stitchPc = "writing"
    /\ towrite # <<>>
    /\ LET id == Head(towrite)
           F2 == [frags EXCEPT
                    ![id] = SetTransform(frags[id], WriteArgs(refinedT[id]))]
       IN IF Live(id)
          THEN /\ frags' = F2
               /\ SetCanvas(Notify(CurCanvas, F2, order))
               /\ emitted' = emitted + 1
          ELSE UNCHANGED <<frags, canvasVars, emitted>>
    /\ towrite' = Tail(towrite)
    /\ UNCHANGED <<managerVars, viewVars, inflight, stitchPc, initialT,
                   refinedT, iter, message, lastLoad>>
    /\ UNCHANGED <<selVars, mouseVars>>

\* perform_stitching, lines 325-330: the handler returns
StitchFinish ==
    /\ stitchPc = "writing"
    /\ towrite = <<>>
    /\ stitchPc' = "idle"
    /\ message' = "Rigid stitching completed"
    /\ UNCHANGED <<frags, managerVars, canvasVars, viewVars, inflight,
                   initialT, refinedT, towrite, iter, emitted, lastLoad>>
    /\ UNCHANGED <<selVars, mouseVars>>

\* ------------------------------------------------------- specifications
\* Inputs of the canvas specification
CanvasImages == {Image(800, 600, TRUE)}
CursorPositions == {<<0, 0>>}

NextCanvas ==
    \/ LoadImages(CanvasImages, 1)
    \/ \E id \in Range(order) : ApplyTransform(id, "rotate_angle", 180)
    \/ \E id \in Range(order) : \E b \in BOOLEAN :
           ToggleFragmentVisibility(id, b)
    \/ \E id \in Range(order) : RemoveFragment(id)
    \/ TimerExpiry
    \/ PaintEvent
    \/ \E up \in BOOLEAN : \E p \in CursorPositions : WheelEvent(up, p[1], p[2])
    \/ ZoomToFit
    \/ ZoomTo100
    \/ \E id \in FragIds : InvalidateFragment(id)
    \/ ClearCache

SpecCanvas == Init /\ [][NextCanvas]_vars

\* Inputs of the mutation specification: every transform request of the
\* control panel, drags, resets, and the render/paint cycle
MaxCoord == 500
MutateImages == {Image(800, 600, TRUE)}
Positions == {<<0, 0>>, <<MaxCoord, 0>>}
TransformRequests ==
    {<<"rotate_cw", 0>>, <<"rotate_ccw", 0>>, <<"rotate_angle", 180>>,
     <<"set_rotation", -450>>, <<"flip_horizontal", 0>>,
     <<"translate", <<MaxCoord, 0>>>>}

NextMutate ==
    \/ LoadImages(MutateImages, 1)
    \/ \E id \in Range(order) : \E r \in TransformRequests :
           /\ r[1] = "translate" => frags[id].x + r[2][1] <= MaxCoord
           /\ ApplyTransform(id, r[1], r[2])
    \/ \E id \in Range(order) : ResetFragmentTransform(id)
    \/ \E id \in Range(order) : \E p \in Positions :
           UpdateFragmentPosition(id, p[1], p[2])
    \/ TimerExpiry
    \/ PaintEvent

SpecMutate == Init /\ [][NextMutate]_vars

\* The background renderer beside mutation, removal and the render cycle.
\* rendering_finished is a Qt signal: its delivery to on_fragment_rendered
\* is direct or queued, so a result may be delivered at once or after other
\* handlers of the owner thread have run.
NextRender ==
    \/ LoadImages(MutateImages, 1)
    \/ \E id \in Range(order) : ApplyTransform(id, "rotate_angle", 180)
    \/ \E id \in Range(order) : RemoveFragment(id)
    \/ TimerExpiry
    \/ PaintEvent
    \/ \E id \in Range(order) : \E z \in {One, 200} : RenderFragment(id, z)
    \/ \E r \in inflight : OnFragmentRendered(r)

SpecRender == Init /\ [][NextRender]_vars

\* Stitching beside the edits that set up the initial guesses
UserEdits ==
    \/ LoadImages(MutateImages, MaxPaths)
    \/ \E id \in Range(order) : ApplyTransform(id, "flip_horizontal", 0)
    \/ \E id \in Range(order) : \E q \in Positions :
           UpdateFragmentPosition(id, q[1], q[2])

NextStitch ==
    \/ UserEdits
    \/ PerformStitching
    \/ StitchIterate
    \/ StitchReturn
    \/ WriteBack
    \/ StitchFinish

SpecStitch == Init /\ [][NextStitch]_vars

\* Loading: every outcome of load_image, with the render cycle
LoadOutcomes == {Image(800, 600, TRUE), LoadNone, LoadRaise}

NextLoad ==
    \/ LoadImages(LoadOutcomes, MaxPaths)
    \/ TimerExpiry
    \/ PaintEvent

SpecLoad == Init /\ [][NextLoad]_vars

\* The viewport: wheel zoom, zoom to fit, zoom to 100 %
ViewImages == {Image(800, 600, TRUE), Image(50000, 40000, TRUE)}
ViewCursorPositions == {<<0, 0>>, <<200, 150>>}

NextView ==
    \/ LoadImages(ViewImages, 1)
    \/ \E id \in Range(order) : \E b \in BOOLEAN :
           ToggleFragmentVisibility(id, b)
    \/ \E up \in BOOLEAN : \E q \in ViewCursorPositions :
           WheelEvent(up, q[1], q[2])
    \/ ZoomToFit
    \/ ZoomTo100

SpecView == Init /\ [][NextView]_vars

\* Selection and hit testing: overlapping fragments, hidden fragments,
\* clicks on one fragment, on two and on none, removal of fragments
SelectImages == {Image(300, 200, TRUE)}
SelectPositions == {<<0, 0>>, <<200, 0>>}
ClickPositions == {<<100, 100>>, <<250, 100>>, <<350, 250>>}
Buttons == {"left", "middle", "right"}

NextSelect ==
    \/ LoadImages(SelectImages, 1)
    \/ \E id \in Range(order) : \E q \in SelectPositions :
           UpdateFragmentPosition(id, q[1], q[2])
    \/ \E id \in Range(order) : \E b \in BOOLEAN :
           ToggleFragmentVisibility(id, b)
    \/ \E id \in Range(order) : RemoveFragment(id)
    \/ \E id \in Range(order) : SelectFragment(id)
    \/ \E b \in Buttons : \E q \in ClickPositions :
           MousePressEvent(b, q[1], q[2])
    \/ MouseReleaseEvent

SpecSelect == Init /\ [][NextSelect]_vars

\* Notification: every request apply_transform understands, position
\* updates, visibility toggles and the reset of all transforms
NotifyRequests ==
    {<<"rotate_cw", 0>>, <<"rotate_ccw", 0>>, <<"rotate_angle", 180>>,
     <<"set_rotation", 90>>, <<"flip_horizontal", 0>>, <<"flip_vertical", 0>>,
     <<"translate", <<MaxCoord, 0>>>>, <<"opacity_changed", 50>>,
     <<"opacity_changed", 100>>, <<"visibility_changed", FALSE>>,
     <<"visibility_changed", TRUE>>}

NextNotify ==
    \/ LoadImages(MutateImages, 1)
    \/ \E id \in Range(order) : \E r \in NotifyRequests :
           /\ r[1] = "translate" => frags[id].x + r[2][1] <= MaxCoord
           /\ ApplyTransform(id, r[1], r[2])
    \/ \E id \in Range(order) : UpdateFragmentPosition(id, 0, 0)
    \/ \E id \in Range(order) : \E b \in BOOLEAN :
           ToggleFragmentVisibility(id, b)
    \/ \E reply \in {"Yes", "No"} : ResetFragments(reply)

SpecNotify == Init /\ [][NextNotify]_vars

\* Visibility and opacity changes, through the manager and written
\* directly by apply_transform, with the render cycle
NextVisibility ==
    \/ LoadImages(MutateImages, 1)
    \/ \E id \in Range(order) : \E v \in {50, 100} :
           ApplyTransform(id, "opacity_changed", v)
    \/ \E id \in Range(order) : \E b \in BOOLEAN :
           ApplyTransform(id, "visibility_changed", b)
    \/ \E id \in Range(order) : \E b \in BOOLEAN :
           ToggleFragmentVisibility(id, b)
    \/ TimerExpiry
    \/ PaintEvent

SpecVisibility == Init /\ [][NextVisibility]_vars

\* Handlers called with any id, live or not (an id never handed out, or the
\* id of a removed fragment)
UnknownRequests == {<<"rotate_cw", 0>>, <<"flip_horizontal", 0>>,
                    <<"visibility_changed", FALSE>>}

NextUnknown ==
    \/ LoadImages(MutateImages, 1)
    \/ \E id \in Range(order) : RemoveFragment(id)
    \/ \E id \in FragIds : \E r \in UnknownRequests :
           ApplyTransform(id, r[1], r[2])
    \/ \E id \in FragIds : UpdateFragmentPosition(id, MaxCoord, 0)
    \/ \E id \in FragIds : ToggleFragmentVisibility(id, FALSE)
    \/ \E id \in FragIds : ResetFragmentTransform(id)
    \/ \E id \in FragIds : SelectFragment(id)

SpecUnknown == Init /\ [][NextUnknown]_vars

\* Flips only, with the render cycle
NextFlip ==
    \/ LoadImages(MutateImages, MaxPaths)
    \/ \E id \in Range(order) : ApplyTransform(id, "flip_horizontal", 0)
    \/ TimerExpiry
    \/ PaintEvent

SpecFlip == Init /\ [][NextFlip]_vars

\* Painting: overlapping, hidden and off-screen fragments, a selection
PaintPositions == {<<0, 0>>, <<200, 0>>, <<MaxCoord, 0>>}

NextPaint ==
    \/ LoadImages(SelectImages, 1)
    \/ \E id \in Range(order) : \E q \in PaintPositions :
           UpdateFragmentPosition(id, q[1], q[2])
    \/ \E id \in Range(order) : \E b \in BOOLEAN :
           ToggleFragmentVisibility(id, b)
    \/ \E id \in Range(order) : SelectFragment(id)
    \/ \E up \in BOOLEAN : \E q \in ViewCursorPositions :
           WheelEvent(up, q[1], q[2])
    \/ PaintEvent

SpecPaint == Init /\ [][NextPaint]_vars

\* The render/paint cycle on its own: images numpy_to_pixmap converts and
\* images it does not (lines 265-275), loads and wheel events that stop
QuiesceImages == {Image(300, 200, TRUE), Image(300, 200, FALSE)}

NextQuiesce ==
    \/ LoadImages(QuiesceImages, 1)
    \/ \E up \in BOOLEAN : \E q \in ViewCursorPositions :
           WheelEvent(up, q[1], q[2])
    \/ TimerExpiry
    \/ PaintEvent

SpecQuiesce == Init /\ [][NextQuiesce]_vars

\* An active render timer expires once the event loop runs, and a render
\* pass ends with update() (line 207), which makes Qt deliver a paint event.
FairQuiesce == SpecQuiesce /\ WF_vars(TimerExpiry) /\ WF_vars(PaintEvent)

\* Dragging and panning: presses on a fragment and beside it, moves,
\* releases, and fragments that come and go meanwhile
MaxPan == 250
DragClicks == {<<100, 100>>, <<350, 100>>}
DragMoves == DragClicks

\* A move that keeps the pan within MaxPan world units
BoundedMove(sx, sy) ==
    /\ Abs(PanBy(panX, sx - lastMousePos[1], zoom)) <= MaxPan * One
    /\ Abs(PanBy(panY, sy - lastMousePos[2], zoom)) <= MaxPan * One
    /\ MouseMoveEvent(sx, sy)

NextDrag ==
    \/ LoadImages(SelectImages, 1)
    \/ \E id \in Range(order) : RemoveFragment(id)
    \/ \E b \in {"left", "middle"} : \E q \in DragClicks :
           MousePressEvent(b, q[1], q[2])
    \/ \E q \in DragMoves : BoundedMove(q[1], q[2])
    \/ MouseReleaseEvent
    \/ FastTimerExpiry

SpecDrag == Init /\ [][NextDrag]_vars

\* Everything that marks fragments dirty, while idle, while a fragment is
\* dragged and while the view is panned, with the render cycle (the mouse
\* is pressed and moved at zoom 1, the zoom changes at any time)
NextSchedule ==
    \/ order = <<>> /\ LoadImages(SelectImages, 1)
    \/ \E q \in DragClicks : zoom = One /\ MousePressEvent("left", q[1], q[2])
    \/ \E q \in DragMoves : zoom = One /\ BoundedMove(q[1], q[2])
    \/ MouseReleaseEvent
    \/ TimerExpiry
    \/ FastTimerExpiry
    \/ PaintEvent
    \/ \E up \in BOOLEAN : WheelEvent(up, 0, 0)
    \/ ZoomToFit
    \/ ZoomTo100
    \/ \E id \in FragIds : InvalidateFragment(id)
    \/ ClearCache

SpecSchedule == Init /\ [][NextSchedule]_vars

\* Level of detail: the zoom values wheel events reach from 1.0 with the
\* cursor at the origin of an empty canvas (the pan stays 0), then one
\* fragment, one more wheel event, and the render cycle
MaxSteps == 14
RECURSIVE ZoomAfter(_, _)
ZoomAfter(k, up) ==
    IF k = 0 THEN One ELSE WheelZoom(ZoomAfter(k - 1, up), up)
LodZooms == {ZoomAfter(k, up) : k \in 0..MaxSteps, up \in BOOLEAN}

InitLod == \E z \in LodZooms : InitWithZoom(z)

NextLod ==
    \/ order = <<>> /\ LoadImages(SelectImages, 1)
    \/ \E up \in BOOLEAN : WheelEvent(up, 0, 0)
    \/ TimerExpiry
    \/ PaintEvent

SpecLod == InitLod /\ [][NextLod]_vars

\* Qt delivers the timeout of an active single-shot timer once the event
\* loop runs, so an expiry that stays possible eventually happens.
FairCanvas == SpecCanvas /\ WF_vars(TimerExpiry)

\* ----------------------------------------------------------------- claims
\* C1: every id that enters dirty_fragments is eventually handled by a
\* render_dirty_fragments pass (the only operation that takes ids out of
\* the set), which renders it or clears it.
C1_NoDirtyIdDropped ==
    \A id \in FragIds : (id \in dirty) ~> (id \notin dirty)

\* C1 witness: a pass has run (the timer is idle again, the set is empty)
\* and it rendered a dirty fragment's pixmap.
C1_Witness ==
    /\ dirty = {}
    /\ ~renderTimer
    /\ \E id \in Range(cfragments) : pixmaps[id].by = "canvas"

\* A step that mutated fragment id: its state changed and its derived data
\* is left invalid (every mutator invalidates; reads only validate).
Mutated(id) == frags'[id] # frags[id] /\ ~frags'[id].valid

Sig(f) == <<f.rot, f.flip>>

\* C2: once a transform mutation of a fragment has been delivered to
\* update_fragments, the fragment is dirty and has no entry in
\* fragment_pixmaps or fragment_zoom_cache; hence every pixmap the canvas
\* holds was rendered from the fragment's current rotation and flip.
C2_PixmapInvalidatedWithTransform ==
    [][ /\ \A id \in Range(order') :
             Mutated(id) => /\ id \in dirty'
                            /\ pixmaps'[id] = NoPixmap
                            /\ zoomCache'[id] = NoZoom
        /\ \A id \in FragIds :
             pixmaps'[id] # NoPixmap => pixmaps'[id].sig = Sig(frags'[id])
      ]_vars

\* C2 witness: a fragment whose transformed image had been computed for an
\* earlier transform was mutated; it is dirty and has no cached pixmap.
C2_Witness ==
    \E id \in Range(cfragments) :
        /\ ~frags[id].valid
        /\ frags[id].cached # NoSig
        /\ frags[id].cached # Sig(frags[id])
        /\ id \in dirty
        /\ pixmaps[id] = NoPixmap
        /\ zoomCache[id] = NoZoom

\* C4 (as claimed): fragment_pixmaps holds, for each id, only a pixmap
\* rendered from the fragment's current transform, and no pixmap for an id
\* that is not in the canvas's fragment list, also after a result of the
\* background renderer has been installed.
C4_NoStaleRenderInstalled ==
    \A id \in FragIds :
        pixmaps[id] # NoPixmap =>
            /\ id \in Range(cfragments)
            /\ pixmaps[id].sig = Sig(frags[id])

\* C5 (as claimed): a render_fragment call changes no field of the shared
\* Fragment objects (a step that adds a rendering_finished emission is a
\* render_fragment call).
C5_RendererLeavesFragmentAlone ==
    [][ (inflight' # inflight /\ inflight \subseteq inflight')
          => frags' = frags ]_vars

CurrentT == InitialTransforms(frags, order)

\* Some fragment carries its refined transform while another still carries
\* its initial one (both differ from what the refinement returned for them)
PartiallyApplied ==
    \E i, j \in DOMAIN refinedT :
        /\ refinedT[i] # initialT[i]
        /\ Transform(frags[i]) = refinedT[i]
        /\ refinedT[j] # initialT[j]
        /\ Transform(frags[j]) = initialT[j]

\* C3 (as claimed): while perform_stitching writes the refined transforms
\* back, the observers of fragments_changed are never notified in a state
\* where some fragments are refined and others are not.
C3_StitchAppliedAtomically ==
    (stitchPc = "writing" /\ emitted > 0) => ~PartiallyApplied

\* C6: stitching requested with 0 or 1 fragments changes no fragment,
\* starts no refinement and emits no change notification.
C6_TooFewFragmentsNoOp ==
    [][ (PerformStitching /\ Len(order) < 2)
          => /\ frags' = frags
             /\ stitchPc' = "idle"
             /\ emitted' = 0
             /\ UNCHANGED <<canvasVars, initialT, refinedT, towrite, iter>>
      ]_vars

\* C6 witness: stitching was requested with exactly one fragment loaded
C6_Witness ==
    /\ message = "Need at least 2 fragments"
    /\ Len(order) = 1
    /\ stitchPc = "idle"
    /\ emitted = 0

C8_BoundedCancellable ==
    stitchPc = "refining" =>
        /\ "budget" \in StitchCallArgs
        /\ ENABLED UserEdits

\* The ids added by the last load, in the order they were added
AddedByLoad == SubSeq(order, Len(lastLoad.before) + 1, Len(order))
OkPaths(paths) == SelectSeq(paths, LAMBDA o : o.res = "ok")

\* C9 (as claimed): after load_images_from_paths, every path that loaded
\* successfully has produced exactly one new fragment, in path order,
\* whatever happened to the other paths.
C9_SuccessfulImagesIngested ==
    /\ Len(AddedByLoad) = Len(OkPaths(lastLoad.paths))
    /\ \A k \in 1..Len(AddedByLoad) :
          /\ k <= Len(OkPaths(lastLoad.paths))
          /\ frags[AddedByLoad[k]].w = OkPaths(lastLoad.paths)[k].w
          /\ frags[AddedByLoad[k]].h = OkPaths(lastLoad.paths)[k].h

\* C10 (as claimed): the zoom stays within [min_zoom, max_zoom].
C10_ZoomInBounds == MinZoom <= zoom /\ zoom <= MaxZoom

\* Indices in the manager's insertion order of the visible fragments that
\* contain the world point (wx, wy)
HitIndices(wx, wy) ==
    {i \in 1..Len(order) :
        frags[order[i]].visible /\ ContainsPoint(frags[order[i]], wx, wy)}

\* C11: a left click at a screen position picks the fragment latest in
\* insertion order among the visible fragments containing the point (it is
\* selected and becomes the dragged fragment), and picks none (the canvas
\* starts panning; selection and drag state untouched) exactly when no
\* visible fragment contains the point.
C11_HitTestTopmost ==
    [][ \A q \in ClickPositions :
          MousePressEvent("left", q[1], q[2]) =>
            LET S == HitIndices(ScreenToWorld(q[1], zoom, panX),
                                ScreenToWorld(q[2], zoom, panY))
            IN IF S = {}
               THEN /\ isPanning'
                    /\ UNCHANGED <<isDragging, draggedId, selVars>>
               ELSE /\ draggedId' = order[SetMax(S)]
                    /\ cselected' = order[SetMax(S)]
                    /\ frags[draggedId'].visible
      ]_vars

\* C11 witness: two fragments contain the dragged point, the upper one is
\* hidden, and the click picked the lower, visible one
C11_Witness ==
    /\ isDragging
    /\ Len(order) = 2
    /\ draggedId = order[1]
    /\ ~frags[order[2]].visible
    /\ ContainsPoint(frags[order[2]], lastMousePos[1], lastMousePos[2])
    /\ ContainsPoint(frags[order[1]], lastMousePos[1], lastMousePos[2])

\* C12 (as claimed): the manager's selected id and the canvas's
\* selected_fragment_id are none or the id of a fragment in the collection,
\* and they agree.
C12_SelectionIsLive ==
    /\ selected \in {NoId} \cup Range(order)
    /\ cselected \in {NoId} \cup Range(order)
    /\ selected = cselected

\* C13: every handler step that changes a fragment (a transform request,
\* a position update, a visibility toggle) emits fragments_changed exactly
\* once, a confirmed reset of all transforms emits it once in total, and no
\* handler emits it more than once.
C13_OneNotificationPerMutation ==
    [][ /\ (order' = order /\ frags' # frags) => emitted' = 1
        /\ ResetFragments("Yes") => emitted' = 1
        /\ order' = order => emitted' \in {0, 1}
      ]_vars

\* C13 witness: the reset was confirmed with two edited fragments loaded;
\* it notified once and both have the identity transform
C13_Witness ==
    /\ Len(order) = 2
    /\ message = "Confirm Reset"
    /\ emitted = 1
    /\ \A id \in Range(order) :
          /\ frags[id].opacity = 50
          /\ frags[id].flipv
          /\ Transform(frags[id]) = Transform(BlankFragment)

\* C20 (as claimed): when a notification delivers a fragment whose
\* visibility changed, or whose opacity changed by more than 0.01,
\* update_fragments marks it dirty; and it drops the cached pixmap of a
\* fragment that became invisible.
C20_VisibilityChangeMarksDirty ==
    [][ \A id \in Range(order) :
          (/\ emitted' > 0
           /\ \/ frags'[id].visible # frags[id].visible
              \/ Abs(frags'[id].opacity - frags[id].opacity) > 1)
          => /\ id \in dirty'
             /\ ~frags'[id].visible =>
                   pixmaps'[id] = NoPixmap /\ zoomCache'[id] = NoZoom
      ]_vars

\* C14 (as claimed): apply_transform, update_fragment_position,
\* toggle_fragment_visibility, reset_fragment_transform and select_fragment
\* called with an id that is not in the collection change no fragment, not
\* the collection and not the selection (the manager's or the canvas's).
C14_UnknownIdChangesNothing ==
    [][ \A id \in FragIds \ Range(order) :
          (\/ \E r \in UnknownRequests : ApplyTransform(id, r[1], r[2])
           \/ UpdateFragmentPosition(id, MaxCoord, 0)
           \/ ToggleFragmentVisibility(id, FALSE)
           \/ ResetFragmentTransform(id)
           \/ SelectFragment(id))
          => UNCHANGED <<frags, order, selected, cselected>>
      ]_vars

\* C15: a step that changes a fragment's rotation, translation or flip
\* leaves its derived data invalid, and whenever the validity flag is true
\* the cached transformed image is the one of the current rotation and flip
\* (the bounding box is computed from it and the current translation).
C15_ValidCacheIsCurrent ==
    [][ \A id \in FragIds :
          /\ Transform(frags'[id]) # Transform(frags[id]) => ~frags'[id].valid
          /\ frags'[id].valid => frags'[id].cached = Sig(frags'[id])
      ]_vars

\* C15 witness: a fragment was rotated, flipped and moved, and then read
C15_Witness ==
    \E id \in Range(order) :
        /\ frags[id].valid
        /\ frags[id].cached = <<270, TRUE>>
        /\ frags[id].x = MaxCoord

FlipTwice(f) ==
    ApplyTransformResult(ApplyTransformResult(f, "flip_horizontal", 0),
                         "flip_horizontal", 0)

\* C17: the flip_horizontal request applied twice to any fragment restores
\* its flip flag and its transformed image and keeps its rotation and
\* translation.
C17_FlipInvolutive ==
    \A id \in Range(order) :
        /\ Transform(FlipTwice(frags[id])) = Transform(frags[id])
        /\ GetTransformedImage(FlipTwice(frags[id])).cached
              = GetTransformedImage(Invalidate(frags[id])).cached

\* C17 witness: a fragment has been flipped twice since its transformed
\* image was last computed, and the cached image is again the current one
C17_Witness ==
    \E id \in Range(order) :
        /\ ~frags[id].valid
        /\ frags[id].cached # NoSig
        /\ frags[id].cached = Sig(frags[id])

\* C18: the initial guesses are the fragments' transforms when stitching
\* starts, they still are while the refinement runs, and from then until
\* the handler returns a fragment changes only by the write-back of its
\* own refined transform.
C18_StitchSnapshotConsistent ==
    [][ /\ stitchPc' = "refining" =>
              initialT' = InitialTransforms(frags', order')
        /\ (stitchPc # "idle" /\ (frags' # frags \/ order' # order)) =>
              /\ stitchPc = "writing" /\ towrite # <<>>
              /\ order' = order
              /\ \A id \in FragIds :
                    frags'[id] # frags[id] =>
                      /\ id = Head(towrite)
                      /\ Transform(frags'[id]) = refinedT[id]
      ]_vars

\* C18 witness: the write-back is half done: one fragment carries its
\* refined transform, the other still its initial guess
C18_Witness ==
    /\ stitchPc = "writing"
    /\ Len(towrite) = 1
    /\ PartiallyApplied

\* C19 (as claimed): after a wheel event that changed the zoom, the world
\* point under the cursor is the one that was under it before.
C19_WheelKeepsCursorFixed ==
    [][ \A up \in BOOLEAN : \A q \in ViewCursorPositions :
          (WheelEvent(up, q[1], q[2]) /\ zoom' # zoom) =>
            /\ ScreenToWorld(q[1], zoom', panX') = ScreenToWorld(q[1], zoom, panX)
            /\ ScreenToWorld(q[2], zoom', panY') = ScreenToWorld(q[2], zoom, panY)
      ]_vars

\* The last fragment of a draw sequence whose rectangle covers the world
\* point (x, y), NoId when there is none
TopDrawnAt(seq, F, x, y) ==
    LET S == {i \in 1..Len(seq) : ContainsPoint(F[seq[i]], x, y)}
    IN IF S = {} THEN NoId ELSE seq[SetMax(S)]

\* Whether seq keeps the relative order its elements have in list
InOrderOf(seq, list) ==
    \A i, j \in 1..Len(seq) :
        i < j => \E a, b \in 1..Len(list) :
                     a < b /\ list[a] = seq[i] /\ list[b] = seq[j]

C22_RenderCycleQuiesces == <>[](dirty = {} /\ ~renderTimer)

\* C23: whenever dirty_fragments is non-empty (between handlers, so outside
\* a running render pass) the render timer is pending: every operation that
\* adds an id to the set also schedules a normal render, also while a
\* fragment is dragged or the view is panned.
C23_DirtyImpliesRenderPending == dirty # {} => renderTimer

\* C23 witness: a fragment is being dragged, the move has changed its
\* position and started the fast update timer, and the fragment is dirty
\* with the render timer pending.
C23_Witness ==
    /\ isDragging /\ draggedId \in Range(cfragments)
    /\ frags[draggedId].x # 0
    /\ fastTimer
    /\ dirty = {draggedId}
    /\ pixmaps[draggedId] = NoPixmap
    /\ renderTimer

\* The zoom values the quantization is compared over (0.01 to 2.2)
ZoomRange == MinZoom..2200

\* C24: two zoom values whose quantized levels (get_zoom_level) differ by
\* less than 0.1 get the same scale factor from apply_lod; so a pixmap that
\* render_fragment_pixmap reuses, or that wheelEvent leaves without marking
\* it dirty, has the LOD scale the current zoom requires.
C24_CachedLodScaleFitsZoom ==
    /\ [](\A z2 \in ZoomRange :
              Abs(GetZoomLevel(zoom) - GetZoomLevel(z2)) < 100
                  => LodScale(zoom) = LodScale(z2))
    /\ [](\A id \in Range(cfragments) :
              (pixmaps[id] # NoPixmap
                  /\ (id \notin dirty \/ UseCached(CurCanvas, zoom, id)))
                  => pixmaps[id].scale = LodScale(zoom))

\* C24 witness: a wheel event moved the zoom from 1.728 to 2.0736, the
\* quantized level moved from 2.0 by less than 0.1, so the fragment was not
\* marked dirty and its pixmap, rendered at the old level, is reused.
C24_Witness ==
    \E id \in Range(cfragments) :
        /\ pixmaps[id] # NoPixmap
        /\ id \notin dirty
        /\ wheels = 1
        /\ zoomCache[id] # GetZoomLevel(zoom)
        /\ UseCached(CurCanvas, zoom, id)

\* C25: LOD substitution does not change a fragment's footprint on the
\* canvas: at every zoom the pixmap render_fragment_pixmap caches, as
\* draw_fragment paints it, covers the fragment's bounding box (the width
\* and height of the transformed image).
C25_LodKeepsFootprint ==
    \A id \in Range(cfragments) :
        pixmaps[id].by = "canvas"
            => DrawnRect(frags[id], pixmaps[id]) = BoundingBox(frags[id])

\* C26: the canvas caches hold entries only for fragments of the canvas's
\* current list: the keys of fragment_pixmaps and of fragment_zoom_cache
\* are ids of self.fragments, in every reachable state.
C26_CachesOnlyForListedFragments ==
    \A id \in FragIds :
        (pixmaps[id] # NoPixmap \/ zoomCache[id] # NoZoom)
            => id \in Range(cfragments)

\* A step of the canvas specification in which the manager emits
\* fragments_changed once (update_ui and on_fragments_changed both run)
ManagerNotification ==
    \/ LoadImages(CanvasImages, 1)
    \/ \E id \in Range(order) : ApplyTransform(id, "rotate_angle", 180)
    \/ \E id \in Range(order) : \E b \in BOOLEAN :
           ToggleFragmentVisibility(id, b)
    \/ \E id \in Range(order) : RemoveFragment(id)

\* C27: update_fragments is idempotent: after the two calls one
\* notification makes with the same list, the dirty set, the pixmaps, the
\* zoom cache and the fragment list are what one call would have left.
C27_UpdateFragmentsIdempotent ==
    [][ManagerNotification =>
          LET once == UpdateFragments(CurCanvas, frags', order')
          IN /\ cfragments' = once.fragments
             /\ pixmaps' = once.pixmaps
             /\ zoomCache' = once.zoomc
             /\ dirty' = once.dirty
    ]_vars

\* C27 witness: a notification whose first call did something: a rendered
\* fragment was rotated, so it is dirty and lost its pixmap, while the other
\* fragment kept the pixmap it had.
C27_Witness ==
    /\ emitted = 1
    /\ Len(cfragments) = 2
    /\ \E id \in Range(cfragments) :
           /\ frags[id].rot = 180 /\ ~frags[id].valid
           /\ frags[id].cached # NoSig
           /\ id \in dirty /\ pixmaps[id] = NoPixmap
    /\ \E id \in Range(cfragments) :
           id \notin dirty /\ pixmaps[id].by = "canvas"

\* C28: is_dragging_fragment and is_panning are never both true in a state
\* reached by left and middle presses, moves and releases, and
\* is_dragging_fragment is true exactly when dragged_fragment_id is set.
C28_DragAndPanExclusive ==
    /\ ~(isDragging /\ isPanning)
    /\ isDragging <=> draggedId # NoId

\* C29: fragment_moved is emitted only between a left press that hit a
\* visible fragment and the next release, it carries the id of the fragment
\* that press hit, and that fragment is in the canvas's fragment list when
\* the event is emitted.
C29_MoveOnlyForHitListedFragment ==
    [][((\E q \in DragMoves : MouseMoveEvent(q[1], q[2]))
            /\ FragmentMovedId # NoId)
        => /\ pressHit # NoId
           /\ FragmentMovedId = pressHit
           /\ FragmentMovedId \in Range(cfragments)
    ]_vars

====
